---- MODULE Spec2Model ----
(***************************************************************************)
(* Model of reading_the_chain.py: is_ordered_block (the priority-fee       *)
(* ordering check of one block), connect_with_middleware and               *)
(* get_contract_values.  The chain (w3.eth) and the contract are external  *)
(* collaborators: every call to them either raises or returns a value.     *)
(***************************************************************************)
EXTENDS Integers, Sequences, FiniteSets, TLC

VARIABLES
    entry,            \* the function of the module the caller invoked
    pc,               \* position inside that function
    block,            \* the block object w3.eth.get_block answers with
    chainTxs,         \* the transaction objects behind the block's hashes
    fetch,            \* outcome of the w3.eth.get_block call: "pending", "ok", "failed"
    base_fee_per_gas, \* local of is_ordered_block (line 84)
    transactions,     \* local of is_ordered_block (line 86): the hashes, as indices into chainTxs
    priority_fees,    \* local of is_ordered_block (line 90)
    lookups,          \* one entry per w3.eth.get_transaction call so far: TRUE iff it returned
    i,                \* loop variable of the comparison loop (line 120), 0-based
    compared,         \* number of adjacent pairs the comparison loop has examined
    result,           \* what is_ordered_block did: "running", "True", "False", "raised"
    connected,        \* answer of w3.is_connected()
    file,             \* content of the contract configuration file
    contract_address, \* local of connect_with_middleware (line 50)
    contract_abi,     \* local of connect_with_middleware (line 51)
    connect_outcome,  \* what connect_with_middleware did: "running", "return", "raise"
    reads,            \* values the contract calls returned so far (onchain_root, has_role, prime)
    raisedAt,         \* the step whose call raised, "" while none did
    returned          \* what get_contract_values returned: <<>> while running, else the tuple

ovars == <<block, chainTxs, fetch, base_fee_per_gas, transactions, priority_fees,
           lookups, i, compared, result>>
cvars == <<connected, file, contract_address, contract_abi, connect_outcome,
           reads, raisedAt, returned>>
vars == <<entry, pc, ovars, cvars>>

-----------------------------------------------------------------------------
(* Python values.  A dict field is either missing (Absent) or holds a      *)
(* value: None, an int, a str, or a list (kept as its length).             *)

Absent == [kind |-> "absent", val |-> 0]
PyNone == [kind |-> "None", val |-> 0]
PyInt(v) == [kind |-> "int", val |-> v]
PyStr(s) == [kind |-> "str", val |-> s]
PyList(n) == [kind |-> "list", val |-> n]

\* d.get(key, default) for the field of d stored under key
Get(field, default) == IF field.kind = "absent" THEN default ELSE field

\* Python's  not v
Not(v) ==
    CASE v.kind = "None" -> TRUE
      [] v.kind = "int" -> v.val = 0
      [] v.kind = "str" -> v.val = ""
      [] v.kind = "list" -> v.val = 0

\* Python's  a or b
Or(a, b) == IF Not(a) THEN b ELSE a

\* Python's  min(a, b)  on ints
min(a, b) == IF b < a THEN b ELSE a

\* seq[idx] with Python's 0-based index
At(seq, idx) == seq[idx + 1]

-----------------------------------------------------------------------------
(* Bounds and input sets.                                                  *)

\* longest transaction list of a block built from TxPool
MaxTxs == 3

\* transaction type the code tests for (line 100) and the default type (line 97)
FeeMarket == 2
Legacy == 0

Tx(t, g, p, f) ==
    [type |-> t, gasPrice |-> g, maxPriorityFeePerGas |-> p, maxFeePerGas |-> f]

\* baseFeePerGas of a block: a quantity, or missing before the fee market
\* (the JSON-RPC block object never carries it as null)
BaseFees == {Absent, PyInt(0), PyInt(40), PyInt(100)}

\* the transactions the longer blocks are built from
TxPool ==
    { Tx(Absent, PyInt(50), Absent, Absent),
      Tx(PyInt(0), PyInt(60), Absent, Absent),
      Tx(PyInt(1), PyInt(30), Absent, Absent),
      Tx(PyInt(0), PyNone, Absent, Absent),
      Tx(PyInt(2), PyInt(60), PyInt(50), PyInt(60)),
      Tx(PyInt(2), Absent, PyInt(30), PyNone),
      Tx(PyInt(2), PyInt(30), Absent, PyInt(90)),
      Tx(PyInt(2), PyNone, PyInt(5), PyInt(120)) }

\* every combination of field values, for the first transaction of a short block
TxTypes == {Absent, PyNone, PyInt(0), PyInt(1), PyInt(2), PyInt(3)}
FieldValues == {Absent, PyNone, PyInt(0), PyInt(5), PyInt(90), PyInt(120)}
AllTxs ==
    { Tx(t, g, p, f) : t \in TxTypes, g \in FieldValues,
                       p \in FieldValues, f \in FieldValues }

SeqsUpTo(S, n) == UNION { [1..m -> S] : m \in 0..n }

\* transaction lists of the blocks get_block can answer with
TxLists ==
    SeqsUpTo(TxPool, MaxTxs)
        \cup { <<t>> : t \in AllTxs }
        \cup { <<t, u>> : t \in AllTxs, u \in TxPool }

\* contents of the contract configuration file (contract_info.json)
Addresses == {Absent, PyNone, PyStr(""), PyStr("0xaA7CAaDA823300D18D3c43f65569a47e78220073")}
Abis == {Absent, PyNone, PyList(0), PyList(1)}
ConfigFile(k, a, b) == [kind |-> k, address |-> a, abi |-> b]
Files ==
    { ConfigFile(k, Absent, Absent) :
        k \in {"unreadable", "malformed", "not a dict", "no bsc", "bsc null"} }
        \cup { ConfigFile("bsc", a, b) : a \in Addresses, b \in Abis }

\* values the three contract view functions can return
Roots == {"0x5a", "0x7f"}
Roles == {"True", "False"}
Primes == {"17", "7919"}

Entries == {"is_ordered_block", "connect_with_middleware", "get_contract_values"}

-----------------------------------------------------------------------------
(* is_ordered_block, lines 62-124.                                         *)

\* mutant: the base fee subtracted after the minimum instead of before it
priority_fee_MinBeforeBase(tx, base) ==
    LET tx_type == Get(tx.type, PyInt(Legacy))
    IN  IF tx_type = PyInt(FeeMarket)
        THEN LET max_priority_fee == Or(Get(tx.maxPriorityFeePerGas, PyInt(0)), PyInt(0)).val
                 max_fee == Or(Get(tx.maxFeePerGas, PyInt(0)), PyInt(0)).val
             IN  min(max_priority_fee, max_fee) - base
        ELSE LET gas_price == Or(Get(tx.gasPrice, PyInt(0)), PyInt(0)).val
             IN  gas_price - base

\* mutant: the type test dropped, every transaction priced as a type 2 one
priority_fee_AlwaysFeeMarket(tx, base) ==
    LET max_priority_fee == Or(Get(tx.maxPriorityFeePerGas, PyInt(0)), PyInt(0)).val
        max_fee == Or(Get(tx.maxFeePerGas, PyInt(0)), PyInt(0)).val
    IN  min(max_priority_fee, max_fee - base)

\* lines 97-110: the priority fee of one transaction
priority_fee(tx, base) ==
    LET tx_type == Get(tx.type, PyInt(Legacy))
    IN  IF tx_type = PyInt(FeeMarket)
        THEN LET max_priority_fee == Or(Get(tx.maxPriorityFeePerGas, PyInt(0)), PyInt(0)).val
                 max_fee == Or(Get(tx.maxFeePerGas, PyInt(0)), PyInt(0)).val
             IN  min(max_priority_fee, max_fee - base)
        ELSE LET gas_price == Or(Get(tx.gasPrice, PyInt(0)), PyInt(0)).val
             IN  gas_price - base

\* mutant: ties rejected
OutOfOrder_NoTies(a, b) == a <= b

\* line 121: the test that ends the comparison loop with False
OutOfOrder(a, b) == a < b

\* line 84: block.get('baseFeePerGas', 0)
BaseFeeOf(b) == Get(b.baseFeePerGas, PyInt(0)).val

\* line 86: block.get('transactions', [])
TransactionsOf(b) ==
    IF b.hasTransactions THEN [n \in 1..Len(chainTxs) |-> n] ELSE <<>>

\* mutant: the handler lets the error reach the caller
FetchBlockFails_Reraises ==
    /\ pc = "get_block"
    /\ fetch' = "failed"
    /\ pc' = "done"
    /\ result' = "raised"
    /\ UNCHANGED <<entry, block, chainTxs, base_fee_per_gas, transactions,
                   priority_fees, lookups, i, compared, cvars>>

\* lines 76-81: get_block raises; the handler prints and returns False
FetchBlockFails ==
    /\ pc = "get_block"
    /\ fetch' = "failed"
    /\ pc' = "done"
    /\ result' = "False"
    /\ UNCHANGED <<entry, block, chainTxs, base_fee_per_gas, transactions,
                   priority_fees, lookups, i, compared, cvars>>

\* mutant: an empty block reported as not ordered
FetchBlock_EmptyIsFalse ==
    /\ pc = "get_block"
    /\ fetch' = "ok"
    /\ base_fee_per_gas' = BaseFeeOf(block)
    /\ transactions' = TransactionsOf(block)
    /\ priority_fees' = <<>>
    /\ IF Len(TransactionsOf(block)) = 0
       THEN pc' = "done" /\ result' = "False"
       ELSE pc' = "get_transaction" /\ result' = result
    /\ UNCHANGED <<entry, block, chainTxs, lookups, i, compared, cvars>>

\* lines 78-90: get_block returns; base fee, transaction list, empty-block return
FetchBlock ==
    /\ pc = "get_block"
    /\ fetch' = "ok"
    /\ base_fee_per_gas' = BaseFeeOf(block)
    /\ transactions' = TransactionsOf(block)
    /\ priority_fees' = <<>>
    /\ IF Len(TransactionsOf(block)) = 0
       THEN pc' = "done" /\ result' = "True"
       ELSE pc' = "get_transaction" /\ result' = result
    /\ UNCHANGED <<entry, block, chainTxs, lookups, i, compared, cvars>>

\* where the for loop of line 92 goes once n hashes have been looked up
AfterLookup(n) ==
    IF n = Len(transactions) THEN "compare" ELSE "get_transaction"

\* mutant: a fee of 0 stands in for the transaction that failed to resolve
GetTransactionFails_ZeroFee ==
    /\ pc = "get_transaction"
    /\ lookups' = Append(lookups, FALSE)
    /\ priority_fees' = Append(priority_fees, 0)
    /\ pc' = AfterLookup(Len(lookups) + 1)
    /\ UNCHANGED <<entry, block, chainTxs, fetch, base_fee_per_gas, transactions,
                   i, compared, result, cvars>>

\* mutant: a transaction that fails to resolve ends the check with False
GetTransactionFails_ReturnsFalse ==
    /\ pc = "get_transaction"
    /\ lookups' = Append(lookups, FALSE)
    /\ pc' = "done"
    /\ result' = "False"
    /\ UNCHANGED <<entry, block, chainTxs, fetch, base_fee_per_gas, transactions,
                   priority_fees, i, compared, cvars>>

\* lines 93-117, get_transaction raises: the transaction is skipped
GetTransactionFails ==
    /\ pc = "get_transaction"
    /\ lookups' = Append(lookups, FALSE)
    /\ pc' = AfterLookup(Len(lookups) + 1)
    /\ UNCHANGED <<entry, block, chainTxs, fetch, base_fee_per_gas, transactions,
                   priority_fees, i, compared, result, cvars>>

\* lines 93-112, get_transaction returns: the fee is appended
GetTransaction ==
    /\ pc = "get_transaction"
    /\ LET tx_hash == transactions[Len(lookups) + 1]
           tx == chainTxs[tx_hash]
       IN  priority_fees' = Append(priority_fees, priority_fee(tx, base_fee_per_gas))
    /\ lookups' = Append(lookups, TRUE)
    /\ pc' = AfterLookup(Len(lookups) + 1)
    /\ UNCHANGED <<entry, block, chainTxs, fetch, base_fee_per_gas, transactions,
                   i, compared, result, cvars>>

\* mutant: the loop notes the out-of-order pair and goes on to the next pair
CompareStep_NoBreak ==
    /\ pc = "compare"
    /\ i < Len(priority_fees) - 1
    /\ compared' = compared + 1
    /\ result' = IF OutOfOrder(At(priority_fees, i), At(priority_fees, i + 1))
                 THEN "False" ELSE result
    /\ i' = i + 1
    /\ UNCHANGED <<entry, pc, block, chainTxs, fetch, base_fee_per_gas, transactions,
                   priority_fees, lookups, cvars>>

\* lines 120-122: one iteration of the comparison loop; on return i is the
\* index of the pair that ended it
CompareStep ==
    /\ pc = "compare"
    /\ i < Len(priority_fees) - 1
    /\ compared' = compared + 1
    /\ IF OutOfOrder(At(priority_fees, i), At(priority_fees, i + 1))
       THEN pc' = "done" /\ result' = "False" /\ i' = i
       ELSE pc' = pc /\ result' = result /\ i' = i + 1
    /\ UNCHANGED <<entry, block, chainTxs, fetch, base_fee_per_gas, transactions,
                   priority_fees, lookups, cvars>>

\* line 124: the loop ran out of pairs
ReturnTrue ==
    /\ pc = "compare"
    /\ ~(i < Len(priority_fees) - 1)
    /\ pc' = "done"
    /\ result' = "True"
    /\ UNCHANGED <<entry, block, chainTxs, fetch, base_fee_per_gas, transactions,
                   priority_fees, lookups, i, compared, cvars>>

-----------------------------------------------------------------------------
(* connect_with_middleware, lines 28-59, and get_contract_values, lines    *)
(* 127-164.                                                                *)

NoneTuple == <<"None", "None", "None">>

\* An exception leaves connect_with_middleware.  Called directly it reaches
\* the caller; inside get_contract_values the handler of lines 140-142
\* returns (None, None, None).
ConnectRaises(step) ==
    /\ connect_outcome' = "raise"
    /\ raisedAt' = step
    /\ pc' = "done"
    /\ returned' = IF entry = "get_contract_values" THEN NoneTuple ELSE returned

\* lines 37-42: the connection test
Connect ==
    /\ pc = "connect"
    /\ IF ~connected
       THEN ConnectRaises("is_connected")
       ELSE /\ pc' = "open"
            /\ UNCHANGED <<connect_outcome, raisedAt, returned>>
    /\ UNCHANGED <<entry, ovars, connected, file, contract_address, contract_abi, reads>>

\* lines 45-46: open() and json.load()
LoadConfig ==
    /\ pc = "open"
    /\ IF file.kind \in {"unreadable", "malformed"}
       THEN ConnectRaises("json.load")
       ELSE /\ pc' = "extract"
            /\ UNCHANGED <<connect_outcome, raisedAt, returned>>
    /\ UNCHANGED <<entry, ovars, connected, file, contract_address, contract_abi, reads>>

\* mutant: the error raised only when both address and abi are missing
MissingConfig_Both(address, abi) == Not(address) /\ Not(abi)

\* line 53: the test that raises ValueError
MissingConfig(address, abi) == Not(address) \/ Not(abi)

\* lines 49-51: info.get('bsc', {}) and the two .get() calls on it
BscField(f, field) == IF f.kind = "no bsc" THEN PyNone ELSE Get(field, PyNone)

\* lines 49-54: the 'bsc' entry, its address and abi, and the check of both
ExtractConfig ==
    /\ pc = "extract"
    /\ IF file.kind \in {"not a dict", "bsc null"}
       THEN /\ ConnectRaises("get")
            /\ UNCHANGED <<contract_address, contract_abi>>
       ELSE /\ contract_address' = BscField(file, file.address)
            /\ contract_abi' = BscField(file, file.abi)
            /\ IF MissingConfig(BscField(file, file.address), BscField(file, file.abi))
               THEN ConnectRaises("ValueError")
               ELSE /\ pc' = "contract"
                    /\ UNCHANGED <<connect_outcome, raisedAt, returned>>
    /\ UNCHANGED <<entry, ovars, connected, file, reads>>

\* line 57, w3.eth.contract raises
MakeContractFails ==
    /\ pc = "contract"
    /\ ConnectRaises("w3.eth.contract")
    /\ UNCHANGED <<entry, ovars, connected, file, contract_address, contract_abi, reads>>

\* lines 57-59: the contract is instantiated and (w3, contract) returned
MakeContract ==
    /\ pc = "contract"
    /\ connect_outcome' = "return"
    /\ pc' = IF entry = "get_contract_values" THEN "merkleRoot" ELSE "done"
    /\ UNCHANGED <<entry, ovars, connected, file, contract_address, contract_abi,
                   reads, raisedAt, returned>>

\* mutant: the values read before the failing call are returned with None for the rest
CallFails_PartialTuple ==
    /\ pc \in {"merkleRoot", "hasRole", "getPrimeByOwner"}
    /\ raisedAt' = pc
    /\ returned' = [k \in 1..3 |-> IF k <= Len(reads) THEN reads[k] ELSE "None"]
    /\ pc' = "done"
    /\ UNCHANGED <<entry, ovars, connected, file, contract_address, contract_abi,
                   connect_outcome, reads>>

\* lines 160-162: a contract call raises; the handler returns (None, None, None)
CallFails ==
    /\ pc \in {"merkleRoot", "hasRole", "getPrimeByOwner"}
    /\ raisedAt' = pc
    /\ returned' = NoneTuple
    /\ pc' = "done"
    /\ UNCHANGED <<entry, ovars, connected, file, contract_address, contract_abi,
                   connect_outcome, reads>>

\* line 152: merkleRoot().call() returns
CallMerkleRoot ==
    /\ pc = "merkleRoot"
    /\ \E onchain_root \in Roots : reads' = <<onchain_root>>
    /\ pc' = "hasRole"
    /\ UNCHANGED <<entry, ovars, connected, file, contract_address, contract_abi,
                   connect_outcome, raisedAt, returned>>

\* line 155: hasRole(default_admin_role, admin_address).call() returns
CallHasRole ==
    /\ pc = "hasRole"
    /\ \E has_role \in Roles : reads' = Append(reads, has_role)
    /\ pc' = "getPrimeByOwner"
    /\ UNCHANGED <<entry, ovars, connected, file, contract_address, contract_abi,
                   connect_outcome, raisedAt, returned>>

\* lines 158-164: getPrimeByOwner(owner_address).call() returns, and the
\* three values are returned
CallGetPrime ==
    /\ pc = "getPrimeByOwner"
    /\ \E prime \in Primes :
          /\ reads' = Append(reads, prime)
          /\ returned' = <<reads[1], reads[2], prime>>
    /\ pc' = "done"
    /\ UNCHANGED <<entry, ovars, connected, file, contract_address, contract_abi,
                   connect_outcome, raisedAt>>

-----------------------------------------------------------------------------

InitOrdered ==
    /\ chainTxs \in TxLists
    /\ block \in [baseFeePerGas : BaseFees, hasTransactions : BOOLEAN]
    /\ (~block.hasTransactions => chainTxs = <<>>)
    /\ fetch = "pending"
    /\ base_fee_per_gas = 0
    /\ transactions = <<>>
    /\ priority_fees = <<>>
    /\ lookups = <<>>
    /\ i = 0
    /\ compared = 0
    /\ result = "running"

InitContract ==
    /\ connected \in BOOLEAN
    /\ file \in Files
    /\ contract_address = PyNone
    /\ contract_abi = PyNone
    /\ connect_outcome = "running"
    /\ reads = <<>>
    /\ raisedAt = ""
    /\ returned = <<>>

\* the state a function's variables are in while another function runs
IdleBlock == [baseFeePerGas |-> Absent, hasTransactions |-> FALSE]
IdleFile == ConfigFile("unreadable", Absent, Absent)

Init ==
    /\ entry \in Entries
    /\ pc = IF entry = "is_ordered_block" THEN "get_block" ELSE "connect"
    /\ InitOrdered
    /\ InitContract
    /\ (entry = "is_ordered_block" => connected = FALSE /\ file = IdleFile)
    /\ (entry # "is_ordered_block" => chainTxs = <<>> /\ block = IdleBlock)

Next ==
    \/ FetchBlockFails
    \/ FetchBlock
    \/ GetTransactionFails
    \/ GetTransaction
    \/ CompareStep
    \/ ReturnTrue
    \/ Connect
    \/ LoadConfig
    \/ ExtractConfig
    \/ MakeContractFails
    \/ MakeContract
    \/ CallFails
    \/ CallMerkleRoot
    \/ CallHasRole
    \/ CallGetPrime

Spec == Init /\ [][Next]_vars

-----------------------------------------------------------------------------
(* What the specification says, stated without the code's helpers.         *)

IsOrderedRun == entry = "is_ordered_block"
Returned == IsOrderedRun /\ pc = "done" /\ fetch = "ok"

\* a numeric field, with 0 for a missing or null one
ValueOrZero(field) == IF field.kind = "int" THEN field.val ELSE 0

IsFeeMarket(tx) == tx.type.kind = "int" /\ tx.type.val = 2

Smaller(a, b) == CHOOSE m \in {a, b} : \A x \in {a, b} : m <= x

StatedBase == ValueOrZero(block.baseFeePerGas)

StatedFee(tx) ==
    IF IsFeeMarket(tx)
    THEN Smaller(ValueOrZero(tx.maxPriorityFeePerGas),
                 ValueOrZero(tx.maxFeePerGas) - StatedBase)
    ELSE ValueOrZero(tx.gasPrice) - StatedBase

NonIncreasing(s) == \A k \in 1..(Len(s) - 1) : s[k] >= s[k + 1]

\* 1-based position of the first adjacent pair of s that is out of order
FirstInversion(s) ==
    CHOOSE k \in 1..(Len(s) - 1) :
        /\ s[k] < s[k + 1]
        /\ \A j \in 1..(k - 1) : s[j] >= s[j + 1]

\* the stated fees of the transactions among the first n whose lookup returned
RECURSIVE ResolvedFees(_)
ResolvedFees(n) ==
    IF n = 0 THEN <<>>
    ELSE IF lookups[n] THEN Append(ResolvedFees(n - 1), StatedFee(chainTxs[n]))
         ELSE ResolvedFees(n - 1)

\* the gasPrice fields of the transactions among the first n whose lookup returned
RECURSIVE ResolvedGasPrices(_)
ResolvedGasPrices(n) ==
    IF n = 0 THEN <<>>
    ELSE IF lookups[n] THEN Append(ResolvedGasPrices(n - 1), ValueOrZero(chainTxs[n].gasPrice))
         ELSE ResolvedGasPrices(n - 1)

\* the stated fees and the gasPrice fields of all transactions of the block
FullFees == [n \in 1..Len(chainTxs) |-> StatedFee(chainTxs[n])]
FullGasPrices == [n \in 1..Len(chainTxs) |-> ValueOrZero(chainTxs[n].gasPrice)]

AllResolved == \A n \in 1..Len(lookups) : lookups[n]
NoFeeMarketTx == \A n \in 1..Len(chainTxs) : ~IsFeeMarket(chainTxs[n])

AsResult(b) == IF b THEN "True" ELSE "False"

\* C1: for a fetched block, is_ordered_block returns True iff the block has no
\* transactions or the priority fees of its transactions, in block order, never
\* increase from one to the next; otherwise it returns False.
C1_OrderedIffNonIncreasing ==
    Returned =>
        result = AsResult(Len(chainTxs) = 0 \/ NonIncreasing(ResolvedFees(Len(lookups))))

C1_Witness ==
    /\ Returned
    /\ Len(lookups) = 3 /\ AllResolved
    /\ priority_fees[1] > priority_fees[2] /\ priority_fees[2] < priority_fees[3]
    /\ result = "False"

\* C2: the fee appended for a resolved transaction is
\* min(maxPriorityFeePerGas, maxFeePerGas - baseFeePerGas) for type 2 and
\* gasPrice - baseFeePerGas for any other type, missing or null fields counting
\* as 0; it is a signed integer.
C2_FeeFormula ==
    (IsOrderedRun /\ lookups # <<>> /\ lookups[Len(lookups)]) =>
        /\ priority_fees # <<>>
        /\ priority_fees[Len(priority_fees)] = StatedFee(chainTxs[Len(lookups)])
        /\ priority_fees[Len(priority_fees)] \in Int

C2_Witness ==
    /\ IsOrderedRun
    /\ block.baseFeePerGas = PyInt(100)
    /\ Len(chainTxs) = 2
    /\ chainTxs[1].gasPrice = PyInt(90) /\ chainTxs[1].type = PyInt(1)
    /\ chainTxs[2] = Tx(PyInt(2), PyNone, PyInt(5), PyInt(120))
    /\ priority_fees = <<-10, 5>>

\* C3: when get_block fails, is_ordered_block returns False, raises nothing and
\* has made no get_transaction call.
C3_FetchFailureReturnsFalse ==
    (IsOrderedRun /\ fetch = "failed") =>
        pc = "done" /\ result = "False" /\ lookups = <<>>

C3_Witness ==
    /\ IsOrderedRun /\ fetch = "failed"
    /\ Len(chainTxs) = 3
    /\ result = "False"

\* C4: once the lookups are over, the fee list holds exactly the fees of the
\* transactions that resolved, in block order, every hash has been looked up,
\* and the result is the ordering check of that list.
C4_UnresolvedDropped ==
    (IsOrderedRun /\ pc \in {"compare", "done"} /\ fetch = "ok" /\ Len(chainTxs) > 0) =>
        /\ Len(lookups) = Len(chainTxs)
        /\ Len(priority_fees) = Cardinality({n \in 1..Len(lookups) : lookups[n]})
        /\ priority_fees = ResolvedFees(Len(lookups))
        /\ (pc = "done" => result = AsResult(NonIncreasing(priority_fees)))

C4_Witness ==
    /\ Returned
    /\ lookups = <<TRUE, FALSE, TRUE>>
    /\ Len(priority_fees) = 2
    /\ priority_fees[2] <= priority_fees[1] /\ priority_fees[1] < 0
    /\ StatedFee(chainTxs[2]) > priority_fees[1]
    /\ result = "True"

\* C5: a block whose fees, with every transaction resolved, never increase is
\* reported ordered whichever of its lookups fail.
C5_FailuresNeverCauseFalse ==
    (Returned /\ NonIncreasing(FullFees)) => result = "True"

C5_Witness ==
    /\ Returned
    /\ Len(chainTxs) = 3
    /\ NonIncreasing(FullFees) /\ FullFees[1] > FullFees[3]
    /\ lookups = <<FALSE, FALSE, FALSE>>
    /\ result = "True"

\* C6: a fee list that never increases gives True after every pair was examined;
\* a fee list with an inversion gives False, returned at the first out-of-order
\* pair with no later pair examined.
C6_FirstInversionReturnsFalse ==
    (Returned /\ Len(chainTxs) > 0) =>
        IF NonIncreasing(priority_fees)
        THEN /\ result = "True"
             /\ compared = (IF Len(priority_fees) = 0 THEN 0 ELSE Len(priority_fees) - 1)
        ELSE /\ result = "False"
             /\ i + 1 = FirstInversion(priority_fees)
             /\ compared = FirstInversion(priority_fees)

C6_Witness ==
    /\ Returned
    /\ priority_fees = <<50, 60, 30>>
    /\ result = "False"
    /\ compared = 1

\* C7: a fetched block with no transaction or a single one is reported ordered.
C7_FewerThanTwoIsOrdered ==
    (Returned /\ Len(chainTxs) < 2) => result = "True"

C7_Witness ==
    /\ Returned
    /\ Len(chainTxs) = 1
    /\ IsFeeMarket(chainTxs[1])
    /\ priority_fees = <<-10>>
    /\ result = "True"

\* C8 as stated: a block without baseFeePerGas (all of its transactions legacy)
\* has base fee 0 and is reported ordered iff its transactions are in
\* non-increasing order of gasPrice.
C8_AsStated ==
    (Returned /\ block.baseFeePerGas = Absent /\ NoFeeMarketTx) =>
        /\ base_fee_per_gas = 0
        /\ (result = "True" <=> NonIncreasing(FullGasPrices))

\* C8, amended: a block without baseFeePerGas, all of its transactions legacy,
\* has base fee 0 and is reported ordered iff those of its transactions that
\* resolved are, in block order, in non-increasing order of gasPrice.
C8_ResolvedSortedByGasPrice ==
    (Returned /\ block.baseFeePerGas = Absent /\ NoFeeMarketTx) =>
        /\ base_fee_per_gas = 0
        /\ (result = "True" <=> NonIncreasing(ResolvedGasPrices(Len(lookups))))

C8_Witness ==
    /\ Returned /\ block.baseFeePerGas = Absent /\ NoFeeMarketTx
    /\ Len(chainTxs) = 3
    /\ lookups = <<TRUE, FALSE, TRUE>>
    /\ ~NonIncreasing(FullGasPrices)
    /\ priority_fees[1] > priority_fees[2]
    /\ result = "True"

\* C9: get_contract_values always returns: (None, None, None) when connecting,
\* loading the configuration or any contract call failed, the three values
\* read when nothing failed, and never a mix of values and None.
C9_AllOrNothing ==
    (entry = "get_contract_values") =>
        /\ (pc # "done" => returned = <<>>)
        /\ (pc = "done" =>
              IF raisedAt # ""
              THEN returned = NoneTuple
              ELSE /\ Len(returned) = 3
                   /\ returned[1] \in Roots
                   /\ returned[2] \in Roles
                   /\ returned[3] \in Primes
                   /\ returned = reads)

C9_Witness ==
    /\ entry = "get_contract_values" /\ pc = "done"
    /\ raisedAt = "getPrimeByOwner"
    /\ Len(reads) = 2
    /\ returned = NoneTuple

\* the configuration file cannot be read or parsed, or lacks the 'bsc' entry,
\* its address or its abi
BadConfig(f) ==
    \/ f.kind # "bsc"
    \/ f.address.kind \in {"absent", "None"} \/ f.address = PyStr("")
    \/ f.abi.kind \in {"absent", "None"} \/ f.abi = PyList(0)

\* C10: with a bad configuration file connect_with_middleware never returns a
\* (w3, contract) pair: it ends by raising to its caller.
C10_ConfigFailureIsFatal ==
    (entry # "is_ordered_block" /\ BadConfig(file)) =>
        /\ connect_outcome # "return"
        /\ (pc = "done" => connect_outcome = "raise")
        /\ (entry = "connect_with_middleware" => returned = <<>>)

C10_Witness ==
    /\ entry = "connect_with_middleware" /\ pc = "done"
    /\ connected
    /\ file.kind = "bsc" /\ ~Not(Get(file.address, PyNone)) /\ file.abi = Absent
    /\ raisedAt = "ValueError"
    /\ connect_outcome = "raise"

====
